---- MODULE Spec2Model ----
(***************************************************************************)
(* A model of PDFComplianceAnalyzer (PDFAnalyser/pdf_analyzer_main.py).    *)
(*                                                                         *)
(* A document (the byte buffer) is abstracted by what the two parser       *)
(* libraries report on it: the fitz view (does fitz.open succeed, and for  *)
(* each page does load_page succeed and which text spans it has) and the   *)
(* pdfplumber view (does pdfplumber.open succeed, and for each page its    *)
(* geometry, its characters and its extracted text).                       *)
(*                                                                         *)
(* Units: a coordinate of the document, a font size before rounding and a  *)
(* decimal literal of the policy are decimals with one fractional digit,   *)
(* held as their number of tenths.  The margins and the margin check are   *)
(* computed in IEEE 754 doubles, as Python computes them.                  *)
(***************************************************************************)
EXTENDS Integers, Sequences, FiniteSets, TLC

VARIABLES
    doc,            \* the file_bytes argument, as the two parser views
    policy,         \* the analyzer's attributes set by __init__
    entry,          \* the public method that was called
    pc,             \* position inside the call
    tried,          \* validate_pdf_format: parsers attempted, in order
    valid,          \* validate_pdf_format: returned value
    page_num,       \* loop index of the running page loop
    font_sizes,     \* extract_font_info: font_sizes
    font_families,  \* extract_font_info: font_families
    margins,        \* extract_margin_info: returned dict
    results,        \* validate_formatting: results
    sections,       \* detect_sections: sections
    content,        \* validate_content: results
    result,         \* analyze: returned value
    calls,          \* components invoked so far in this call
    caught,         \* components whose except clause ran in this call
    runs,           \* number of the current call on the same bytes
    prev_sections   \* sections returned by the previous call

vars == <<doc, policy, entry, pc, tried, valid, page_num, font_sizes,
          font_families, margins, results, sections, content, result,
          calls, caught, runs, prev_sections>>

(***************************************************************************)
(* Bounds of the model.                                                    *)
(***************************************************************************)
MaxFitzPages == 2   \* pages of the fitz view in the formatting specification
MaxChars == 2       \* characters on the first page in the formatting specification
MaxPages == 3       \* pages of the pdfplumber view in the content specification
MaxDocPages == 2    \* pages of either view in the whole-analysis specification
MaxRuns == 2        \* calls on the same bytes

(***************************************************************************)
(* Strings.                                                                *)
(***************************************************************************)
Abs(x) == IF x < 0 THEN 0 - x ELSE x

\* The texts of the model are over the characters U+0000 to U+00FF.  Of
\* these str.lower() changes A to Z and the capital letters of U+00C0 to
\* U+00DE (U+00D7, the multiplication sign, is not one), each to the
\* character 32 code points above it.
Upper == <<"A","B","C","D","E","F","G","H","I","J","K","L","M",
           "N","O","P","Q","R","S","T","U","V","W","X","Y","Z",
           "À","Á","Â","Ã","Ä","Å","Æ","Ç","È","É",
           "Ê","Ë","Ì","Í","Î","Ï","Ð","Ñ","Ò","Ó",
           "Ô","Õ","Ö","Ø","Ù","Ú","Û","Ü","Ý","Þ">>
LowerOf == <<"a","b","c","d","e","f","g","h","i","j","k","l","m",
             "n","o","p","q","r","s","t","u","v","w","x","y","z",
             "à","á","â","ã","ä","å","æ","ç","è","é",
             "ê","ë","ì","í","î","ï","ð","ñ","ò","ó",
             "ô","õ","ö","ø","ù","ú","û","ü","ý","þ">>

\* str.lower() of one character
LowerChar(c) == IF \E i \in 1..Len(Upper) : Upper[i] = c
                THEN LowerOf[CHOOSE i \in 1..Len(Upper) : Upper[i] = c]
                ELSE c

\* a string as the sequence of its characters
Chars(s) == [i \in 1..Len(s) |-> SubSeq(s, i, i)]

\* str.lower(), as a sequence of characters
Lower(s) == [i \in 1..Len(s) |-> LowerChar(SubSeq(s, i, i))]

\* Python's  needle in hay  for strings (sequences of characters)
Contains(hay, needle) ==
    \E i \in 1..(Len(hay) + 1) :
        /\ i + Len(needle) - 1 <= Len(hay)
        /\ SubSeq(hay, i, i + Len(needle) - 1) = needle

\* The characters \s matches in a str pattern, among those a string of the
\* model can hold: the space, U+0009 to U+000D, U+001C to U+001F, U+0085,
\* U+00A0 and U+1680.  (\s also matches U+2000 to U+200A, U+2028, U+2029,
\* U+202F, U+205F and U+3000, which no string of the model can hold.)
Whitespace == {" ", "\t", "\n", "\r", "\f", "",
               "", "", "", "",
               "", " ", " "}

IsSpace(c) == c \in Whitespace

(***************************************************************************)
(* Regular expressions of section_keywords.  A pattern is a sequence of    *)
(* parts: a literal, \s+ (one or more whitespace characters) or an         *)
(* optional character (x?).                                                *)
(***************************************************************************)
Lit(s) == [kind |-> "lit", s |-> s]
Ws == [kind |-> "ws", s |-> ""]
Opt(c) == [kind |-> "opt", s |-> c]

\* the pattern matches text (a sequence of characters) from position i
RECURSIVE MatchAt(_, _, _)
MatchAt(parts, text, i) ==
    IF Len(parts) = 0 THEN TRUE
    ELSE LET p == Head(parts)
             rest == Tail(parts)
         IN CASE p.kind = "lit" ->
                   /\ i + Len(p.s) - 1 <= Len(text)
                   /\ SubSeq(text, i, i + Len(p.s) - 1) = Chars(p.s)
                   /\ MatchAt(rest, text, i + Len(p.s))
              [] p.kind = "ws" ->
                   \E k \in 1..(Len(text) - i + 1) :
                       /\ \A j \in i..(i + k - 1) : IsSpace(text[j])
                       /\ MatchAt(rest, text, i + k)
              [] p.kind = "opt" ->
                   \/ /\ i <= Len(text)
                      /\ text[i] = p.s
                      /\ MatchAt(rest, text, i + 1)
                   \/ MatchAt(rest, text, i)

\* re.search(pattern, text) is not None
Search(parts, text) == \E i \in 1..(Len(text) + 1) : MatchAt(parts, text, i)

Categories == {"technical_requirements", "budget", "qualification"}

section_keywords ==
    [technical_requirements |->
        << <<Lit("technical"), Ws, Lit("requirement"), Opt("s")>>,
           <<Lit("technical"), Ws, Lit("specification"), Opt("s")>>,
           <<Lit("system"), Ws, Lit("requirement"), Opt("s")>>,
           <<Lit("technical"), Ws, Lit("details")>> >>,
     budget |->
        << <<Lit("budget")>>,
           <<Lit("financial")>>,
           <<Lit("cost")>>,
           <<Lit("pricing")>>,
           <<Lit("expense"), Opt("s")>> >>,
     qualification |->
        << <<Lit("qualification"), Opt("s")>>,
           <<Lit("credential"), Opt("s")>>,
           <<Lit("experience")>>,
           <<Lit("expertise")>>,
           <<Lit("competenc")>> >>]

(***************************************************************************)
(* The policy: the attributes __init__ sets, and the two tolerances that   *)
(* validate_formatting writes as literals.                                 *)
(***************************************************************************)
PointsPerInch == 72
font_size_tolerance == 1
margin_tolerance_tenths == 2     \* the literal 0.2

DefaultLimits == [technical_requirements |-> 8, budget |-> 4, qualification |-> 4]

DefaultPolicy == [required_font_size |-> 12,
                  required_margin_inches |-> 10,      \* the literal 1.0
                  section_limits |-> DefaultLimits]

(***************************************************************************)
(* Typography.                                                             *)
(***************************************************************************)
\* Python's round() of a size given in tenths of a point: to the nearest
\* integer, a tie to the even one
round(t) ==
    LET q == t \div 10
        r == t % 10
    IN IF r < 5 THEN q
       ELSE IF r > 5 THEN q + 1
       ELSE IF q % 2 = 0 THEN q ELSE q + 1

\* the two sets after the spans of one page were added
AddSpans(sizes, families, spans) ==
    [font_sizes |-> sizes \cup {round(sp.size) : sp \in spans},
     font_families |-> families \cup {sp.font : sp \in spans}]

FontInfoOnError_KeepPartial(sizes, families) ==
    [font_sizes |-> sizes, font_families |-> families]

\* the except clause of extract_font_info
FontInfoOnError(sizes, families) ==
    [font_sizes |-> {}, font_families |-> {}]

FontSizeOK_Strict(sizes, required) ==
    /\ sizes # {}
    /\ \E size \in sizes : Abs(size - required) < font_size_tolerance

\* the font size check of validate_formatting
FontSizeOK(sizes, required) ==
    /\ sizes # {}
    /\ \E size \in sizes : Abs(size - required) <= font_size_tolerance

times_variants == <<"Times", "Times-Roman", "TimesNewRoman", "Times New Roman">>

FontFamilyOK_CaseSensitive(families) ==
    /\ families # {}
    /\ \E font \in families :
          \E v \in 1..Len(times_variants) :
              Contains(Chars(font), Chars(times_variants[v]))

\* the font family check of validate_formatting
FontFamilyOK(families) ==
    /\ families # {}
    /\ \E font \in families :
          \E v \in 1..Len(times_variants) :
              Contains(Lower(font), Lower(times_variants[v]))

(***************************************************************************)
(* IEEE 754 double arithmetic.  A natural number is a little-endian        *)
(* sequence of limbs below LimbBase without leading zero limbs; a double   *)
(* is [neg, m, e] for the value (-1)^neg * m * 2^e, m of exactly 53 bits,   *)
(* or zero with m = <<>>.  Every operation rounds to nearest, ties to      *)
(* even, as the float operations of Python do.  Subnormal numbers,         *)
(* infinities and the negative zero are outside the values modelled.       *)
(***************************************************************************)
Min(S) == CHOOSE x \in S : \A y \in S : x <= y
Max(S) == CHOOSE x \in S : \A y \in S : x >= y

LimbBits == 14
LimbBase == 16384
MantissaBits == 53

Trim(n) ==
    LET nz == {i \in 1..Len(n) : n[i] # 0}
    IN IF nz = {} THEN <<>>
       ELSE SubSeq(n, 1, CHOOSE i \in nz : \A j \in nz : j <= i)

\* a natural below 2^31 as limbs
FromInt(n) == Trim(<<n % LimbBase, (n \div LimbBase) % LimbBase,
                     n \div (LimbBase * LimbBase)>>)

\* bits of an integer below 2^31
IntBitLen(n) == IF n = 0 THEN 0
                ELSE CHOOSE b \in 1..31 : 2^(b - 1) <= n /\ (b = 31 \/ n < 2^b)

BitLen(n) == IF Len(n) = 0 THEN 0
             ELSE LimbBits * (Len(n) - 1) + IntBitLen(n[Len(n)])

IsOdd(n) == Len(n) > 0 /\ n[1] % 2 = 1

RECURSIVE MulFrom(_, _, _, _)
MulFrom(n, c, i, carry) ==
    IF i > Len(n) THEN FromInt(carry)
    ELSE LET v == n[i] * c + carry
         IN <<v % LimbBase>> \o MulFrom(n, c, i + 1, v \div LimbBase)

\* n * c for a small c
MulSmall(n, c) == Trim(MulFrom(n, c, 1, 0))

\* n * 2^t
ShiftLeft(n, t) ==
    IF Len(n) = 0 THEN <<>>
    ELSE [i \in 1..(t \div LimbBits) |-> 0] \o MulSmall(n, 2^(t % LimbBits))

RECURSIVE DivFrom(_, _, _, _)
DivFrom(n, d, i, rem) ==
    IF i = 0 THEN [q |-> <<>>, r |-> rem]
    ELSE LET cur == rem * LimbBase + n[i]
             low == DivFrom(n, d, i - 1, cur % d)
         IN [q |-> Append(low.q, cur \div d), r |-> low.r]

TrimQuot(qr) == [q |-> Trim(qr.q), r |-> qr.r]

\* quotient and remainder of n by a small d
DivSmall(n, d) == TrimQuot(DivFrom(n, d, Len(n), 0))

RECURSIVE AddFrom(_, _, _, _)
AddFrom(a, b, i, carry) ==
    IF i > Len(a) /\ i > Len(b) THEN FromInt(carry)
    ELSE LET ai == IF i <= Len(a) THEN a[i] ELSE 0
             bi == IF i <= Len(b) THEN b[i] ELSE 0
             v == ai + bi + carry
         IN <<v % LimbBase>> \o AddFrom(a, b, i + 1, v \div LimbBase)

\* a + b
NatAdd(a, b) == Trim(AddFrom(a, b, 1, 0))

RECURSIVE SubFrom(_, _, _, _)
SubFrom(a, b, i, borrow) ==
    IF i > Len(a) THEN <<>>
    ELSE LET bi == IF i <= Len(b) THEN b[i] ELSE 0
             v == a[i] - bi - borrow
         IN IF v < 0 THEN <<v + LimbBase>> \o SubFrom(a, b, i + 1, 1)
            ELSE <<v>> \o SubFrom(a, b, i + 1, 0)

\* a - b for a >= b
NatSub(a, b) == Trim(SubFrom(a, b, 1, 0))

\* a < b
NatLess(a, b) ==
    \/ Len(a) < Len(b)
    \/ /\ Len(a) = Len(b)
       /\ \E i \in 1..Len(a) :
             /\ a[i] < b[i]
             /\ \A j \in (i + 1)..Len(a) : a[j] = b[j]

\* floor(n / 2^k)
ShiftRight(n, k) ==
    IF k \div LimbBits >= Len(n) THEN <<>>
    ELSE DivSmall(SubSeq(n, (k \div LimbBits) + 1, Len(n)), 2^(k % LimbBits)).q

Sign(a, b) == IF NatLess(a, b) THEN -1 ELSE IF a = b THEN 0 ELSE 1

DZero == [neg |-> FALSE, m |-> <<>>, e |-> 0]
IsZero(x) == Len(x.m) = 0

\* A scaled quotient is [q, half, exact, t]: q = floor(n * 2^t / d), half
\* is the remainder against half of the divisor (-1 below, 0 equal,
\* 1 above) and exact says that the remainder is zero.
QuotUp(qr, d, t) ==
    [q |-> qr.q, half |-> Sign(FromInt(2 * qr.r), FromInt(d)),
     exact |-> qr.r = 0, t |-> t]

QuotRem(q, rem, d, k) ==
    [q |-> q, half |-> Sign(MulSmall(rem, 2), ShiftLeft(FromInt(d), k)),
     exact |-> Len(rem) = 0, t |-> 0 - k]

QuotDown(n, d, k, q) == QuotRem(q, NatSub(n, ShiftLeft(MulSmall(q, d), k)), d, k)

ScaledQuot(n, d, t) ==
    IF t >= 0 THEN QuotUp(DivSmall(ShiftLeft(n, t), d), d, t)
    ELSE QuotDown(n, d, 0 - t, DivSmall(ShiftRight(n, 0 - t), d).q)

\* a scaled quotient of 53 or 54 bits brought to 53 bits
Narrow(s) ==
    IF BitLen(s.q) = MantissaBits THEN s
    ELSE [q |-> DivSmall(s.q, 2).q,
          half |-> IF ~IsOdd(s.q) THEN -1 ELSE IF s.exact THEN 0 ELSE 1,
          exact |-> s.exact /\ ~IsOdd(s.q),
          t |-> s.t - 1]

\* round to nearest, ties to even
Mantissa(s) ==
    IF s.half = 1 \/ (s.half = 0 /\ IsOdd(s.q)) THEN NatAdd(s.q, <<1>>)
    ELSE s.q

\* a mantissa that rounding has carried to 2^53 is 2^52 with the next exponent
Pack(neg, m, e) ==
    IF BitLen(m) > MantissaBits
    THEN [neg |-> neg, m |-> DivSmall(m, 2).q, e |-> e + 1]
    ELSE [neg |-> neg, m |-> m, e |-> e]

Rounded(neg, s, e) == Pack(neg, Mantissa(s), e - s.t)

\* the double nearest to (-1)^neg * (n / d) * 2^e, ties to even
RoundRat(neg, n, d, e) ==
    IF Len(n) = 0 THEN DZero
    ELSE Rounded(neg,
                 Narrow(ScaledQuot(n, d, MantissaBits - BitLen(n) + IntBitLen(d))),
                 e)

\* the double a decimal with one fractional digit denotes: float("86.4")
Float(tenths) == RoundRat(tenths < 0, FromInt(Abs(tenths)), 10, 0)

\* |a| < |b|
Below(a, b) ==
    IF IsZero(b) THEN FALSE
    ELSE IF IsZero(a) THEN TRUE
    ELSE a.e < b.e \/ (a.e = b.e /\ NatLess(a.m, b.m))

\* x < y
DLess(x, y) ==
    IF x.neg # y.neg THEN x.neg
    ELSE IF x.neg THEN Below(y, x) ELSE Below(x, y)

\* abs(x)
DAbs(x) == [x EXCEPT !.neg = FALSE]

\* -x
DNeg(x) == [x EXCEPT !.neg = ~x.neg]

\* (-1)^xneg * a - (-1)^yneg * b, then times 2^e
Difference(xneg, a, yneg, b, e) ==
    RoundRat(IF xneg = yneg /\ NatLess(a, b) THEN ~xneg ELSE xneg,
             IF xneg # yneg THEN NatAdd(a, b)
             ELSE IF NatLess(a, b) THEN NatSub(b, a) ELSE NatSub(a, b),
             1, e)

\* x - y
DSub(x, y) ==
    IF IsZero(y) THEN x
    ELSE IF IsZero(x) THEN DNeg(y)
    ELSE Difference(x.neg, ShiftLeft(x.m, x.e - Min({x.e, y.e})),
                    y.neg, ShiftLeft(y.m, y.e - Min({x.e, y.e})),
                    Min({x.e, y.e}))

\* x / d for a small positive integer d
DDiv(x, d) == RoundRat(x.neg, x.m, d, x.e)

(***************************************************************************)
(* Margins.                                                                *)
(***************************************************************************)
\* points to inches: a double divided by 72
ToInches(points) == DDiv(points, PointsPerInch)

\* the literal 0.2 of validate_formatting
margin_tolerance == Float(margin_tolerance_tenths)

ZeroMargins == [left |-> DZero, right |-> DZero, top |-> DZero, bottom |-> DZero]

extract_margin_info_DefaultOneInch(plumber) ==
    IF /\ plumber.opens
       /\ Len(plumber.pages) > 0
       /\ plumber.pages[1].chars_ok
       /\ plumber.pages[1].chars # {}
    THEN LET page == plumber.pages[1]
         IN [left |-> ToInches(Float(Min({c.x0 : c \in page.chars}))),
             right |-> ToInches(DSub(Float(page.width),
                                     Float(Max({c.x1 : c \in page.chars})))),
             top |-> ToInches(Float(Min({c.top : c \in page.chars}))),
             bottom |-> ToInches(DSub(Float(page.height),
                                      Float(Max({c.bottom : c \in page.chars}))))]
    ELSE [left |-> Float(10), right |-> Float(10),
          top |-> Float(10), bottom |-> Float(10)]

\* extract_margin_info: the returned dict.  The coordinates of the document
\* are doubles; the least double is the double of the least decimal.
extract_margin_info(plumber) ==
    IF /\ plumber.opens
       /\ Len(plumber.pages) > 0
       /\ plumber.pages[1].chars_ok
       /\ plumber.pages[1].chars # {}
    THEN LET page == plumber.pages[1]
             page_width == Float(page.width)
             page_height == Float(page.height)
             min_x == Float(Min({c.x0 : c \in page.chars}))
             max_x == Float(Max({c.x1 : c \in page.chars}))
             min_y == Float(Min({c.top : c \in page.chars}))
             max_y == Float(Max({c.bottom : c \in page.chars}))
         IN [left |-> ToInches(min_x),
             right |-> ToInches(DSub(page_width, max_x)),
             top |-> ToInches(min_y),
             bottom |-> ToInches(DSub(page_height, max_y))]
    ELSE ZeroMargins

\* extract_margin_info: its except clause runs
MarginInfoRaises(plumber) ==
    \/ ~plumber.opens
    \/ /\ Len(plumber.pages) > 0
       /\ ~plumber.pages[1].chars_ok

\* the margin check of validate_formatting:
\* all(abs(margin - required_margin_inches) <= margin_tolerance ...)
MarginOK(m, required) ==
    \A side \in DOMAIN m :
        ~DLess(margin_tolerance, DAbs(DSub(m[side], Float(required))))

(***************************************************************************)
(* Sections.                                                               *)
(***************************************************************************)
EmptySections == [technical_requirements |-> <<>>, budget |-> <<>>,
                  qualification |-> <<>>]

InSeq(x, s) == \E i \in 1..Len(s) : s[i] = x

\* the keyword loop without the membership test and without the break
RECURSIVE ScanCategory_EveryPattern(_, _, _, _)
ScanCategory_EveryPattern(pages, keywords, text_lower, num) ==
    IF Len(keywords) = 0 THEN pages
    ELSE ScanCategory_EveryPattern(
             IF Search(Head(keywords), text_lower)
             THEN Append(pages, num) ELSE pages,
             Tail(keywords), text_lower, num)

\* the keyword loop of detect_sections for one category on one page
RECURSIVE ScanCategory(_, _, _, _)
ScanCategory(pages, keywords, text_lower, num) ==
    IF Len(keywords) = 0 THEN pages
    ELSE IF Search(Head(keywords), text_lower)
         THEN IF InSeq(num, pages) THEN pages ELSE Append(pages, num)
         ELSE ScanCategory(pages, Tail(keywords), text_lower, num)

\* the body of the page loop of detect_sections, after extract_text
ScanPage(secs, page, num) ==
    IF page.text_kind = "text" /\ Len(page.text) > 0
    THEN [c \in Categories |->
             ScanCategory(secs[c], section_keywords[c], Lower(page.text), num)]
    ELSE secs

ContentVerdict_Strict(page_count, limit) ==
    IF page_count < limit THEN "pass" ELSE "fail"

\* the verdict of validate_content for one category
ContentVerdict(page_count, limit) ==
    IF page_count <= limit THEN "pass" ELSE "fail"

\* validate_content: results, from the detected sections
ContentResults(secs, limits) ==
    [pages |-> [c \in Categories |-> Len(secs[c])],
     verdict |-> [c \in Categories |-> ContentVerdict(Len(secs[c]), limits[c])]]

(***************************************************************************)
(* validate_formatting and analyze.                                        *)
(***************************************************************************)
InitResults == [file_type |-> "fail", font_size |-> "fail",
                font_family |-> "fail", margin |-> "fail"]

PassIf(b) == IF b THEN "pass" ELSE "fail"

GateNext_NoEarlyReturn(is_valid) == "extract_font_info"

\* where validate_formatting goes after the file type check
GateNext(is_valid) == IF is_valid THEN "extract_font_info" ELSE "return"

AnalyzeResult_ContentGated(format_results, content_results) ==
    [format |-> format_results,
     content |-> IF format_results.file_type = "pass" THEN content_results
                 ELSE [pages |-> content_results.pages,
                       verdict |-> [c \in Categories |-> "fail"]]]

\* the dict analyze returns
AnalyzeResult(format_results, content_results) ==
    [format |-> format_results, content |-> content_results]

(***************************************************************************)
(* Documents.                                                              *)
(***************************************************************************)
SeqsUpTo(S, n) == UNION {[1..k -> S] : k \in 0..n}

Span(size, font) == [size |-> size, font |-> font]

Spans == {Span(120, "Times New Roman"),
          Span(130, "Helvetica"),
          Span(140, "ABCDEF+TimesNewRomanPSMT"),
          Span(105, "TIMES-ROMAN"),
          Span(125, "Timeless")}

BadFitzPage == [loads |-> FALSE, spans |-> {}]
FitzPage(spans) == [loads |-> TRUE, spans |-> spans]

FitzThrows == [opens |-> FALSE, pages |-> <<>>]
FitzDoc(pages) == [opens |-> TRUE, pages |-> pages]

Char(x0, x1, top, bottom) == [x0 |-> x0, x1 |-> x1, top |-> top, bottom |-> bottom]

\* a US Letter page, 612.0 by 792.0 points
PageWidth == 6120
PageHeight == 7920

\* characters of a first page; coordinates in tenths of a point
CharPool == {Char(720, 800, 720, 840),       \* top left, 1 inch in
             Char(5320, 5400, 7080, 7200),   \* bottom right, 1 inch in
             Char(864, 944, 720, 840),       \* left side at 86.4 pt: 1.2 inch
             Char(576, 656, 720, 840),       \* left side at 57.6 pt: 0.8 inch
             Char(1440, 1520, 1440, 1560),   \* top left, 2 inches in
             Char(4600, 4680, 6400, 6480),   \* bottom right, 2 inches in
             Char(870, 950, 720, 840),       \* left side at 87 pt
             Char(860, 940, 860, 980),       \* top left, 86 pt in
             Char(5180, 5260, 6940, 7060),   \* bottom right, 86 pt in
             Char(6760, 6840, 7080, 7200)}   \* past the right page edge

PlumberPage(chars_ok, chars, text_kind, text) ==
    [width |-> PageWidth, height |-> PageHeight,
     chars_ok |-> chars_ok, chars |-> chars,
     text_kind |-> text_kind, text |-> text]

PlumberThrows == [opens |-> FALSE, pages |-> <<>>]
PlumberDoc(pages) == [opens |-> TRUE, pages |-> pages]

GoodChars == {Char(720, 800, 720, 840), Char(5320, 5400, 7080, 7200)}

TextPage(text) == PlumberPage(TRUE, GoodChars, "text", text)
NoTextPage == PlumberPage(TRUE, {}, "none", "")
BadTextPage == PlumberPage(TRUE, GoodChars, "raises", "")
BadCharsPage == PlumberPage(FALSE, {}, "text", "Technical\nRequirements")

PageTexts == {"",
              "Introduction",
              "Project BUDGET and Cost",
              "Technical  Requirements\nsystem requirement",
              "Budget: Technical\nSpecifications by Expertise",
              "Technical\rRequirements",
              "SYSTEM\f\tREQUIREMENT",
              "Technical Requirements",
              "technicaldetails",
              "CAFÉ BUDGET"}

\* documents of the formatting specification
FitzViewsFormat ==
    {FitzThrows} \cup
    {FitzDoc(p) : p \in SeqsUpTo({BadFitzPage} \cup
                     {FitzPage(S) : S \in {{}} \cup {{sp} : sp \in Spans}},
                     MaxFitzPages)}

PlumberViewsFormat ==
    {PlumberThrows, PlumberDoc(<<>>), PlumberDoc(<<BadCharsPage>>)} \cup
    {PlumberDoc(<<PlumberPage(TRUE, S, "text", "Introduction")>>) :
        S \in {T \in SUBSET CharPool : Cardinality(T) <= MaxChars}}

\* The policy is held in public attributes of the analyzer object, which
\* every method reads through self: __init__ sets the defaults and a caller
\* may assign other values before calling.  The tolerances are literals.
PoliciesFormat ==
    {DefaultPolicy,
     [DefaultPolicy EXCEPT !.required_font_size = 11,
                           !.required_margin_inches = 8],
     [DefaultPolicy EXCEPT !.required_margin_inches = 12],
     [DefaultPolicy EXCEPT !.required_margin_inches = 22],
     [DefaultPolicy EXCEPT !.required_margin_inches = 1]}

\* documents of the content specification
B == TextPage("Project BUDGET and Cost")
N == TextPage("Introduction")

LongDocs == {PlumberDoc(<<B, B, B, B>>),
             PlumberDoc(<<B, B, B, B, N, N, N, N, B>>)}

PlumberViewsContent ==
    {PlumberThrows} \cup LongDocs \cup
    {PlumberDoc(p) : p \in SeqsUpTo({NoTextPage, BadTextPage} \cup
                                     {TextPage(t) : t \in PageTexts}, MaxPages)}

PoliciesContent ==
    {DefaultPolicy,
     [DefaultPolicy EXCEPT !.section_limits =
         [technical_requirements |-> 2, budget |-> 1, qualification |-> 0]]}

\* documents of the whole analysis
FitzViewsWhole ==
    {FitzThrows} \cup
    {FitzDoc(p) : p \in SeqsUpTo({BadFitzPage,
                                  FitzPage({Span(120, "Times New Roman")}),
                                  FitzPage({Span(140, "Helvetica")})},
                                 MaxDocPages)}

PlumberViewsWhole ==
    {PlumberThrows} \cup
    {PlumberDoc(p) : p \in SeqsUpTo({B, NoTextPage, BadTextPage, BadCharsPage},
                                    MaxDocPages)}

PoliciesWhole == {DefaultPolicy}

(***************************************************************************)
(* The state machine.                                                      *)
(***************************************************************************)
UnsetContent == [pages |-> [c \in Categories |-> 0],
                 verdict |-> [c \in Categories |-> "unset"]]

StartPc(e) == IF e = "validate_content" THEN "validate_content"
              ELSE "validate_formatting"

\* the state when a method is called on the bytes
CallState(e) ==
    /\ entry = e
    /\ pc = StartPc(e)
    /\ tried = <<>>
    /\ valid = FALSE
    /\ page_num = 0
    /\ font_sizes = {}
    /\ font_families = {}
    /\ margins = ZeroMargins
    /\ results = InitResults
    /\ sections = EmptySections
    /\ content = UnsetContent
    /\ result = <<>>
    /\ calls = {}
    /\ caught = {}

InitFormat ==
    /\ doc \in [fitz : FitzViewsFormat, plumber : PlumberViewsFormat]
    /\ policy \in PoliciesFormat
    /\ CallState("validate_formatting")
    /\ runs = 1
    /\ prev_sections = EmptySections

InitContent ==
    /\ doc \in [fitz : {FitzDoc(<<FitzPage({Span(120, "Times New Roman")})>>)},
                plumber : PlumberViewsContent]
    /\ policy \in PoliciesContent
    /\ CallState("validate_content")
    /\ runs = 1
    /\ prev_sections = EmptySections

Init ==
    /\ doc \in [fitz : FitzViewsWhole, plumber : PlumberViewsWhole]
    /\ policy \in PoliciesWhole
    /\ CallState("analyze")
    /\ runs = 1
    /\ prev_sections = EmptySections

\* where control goes when validate_formatting returns
AfterFormat == IF entry = "analyze" THEN "validate_content" ELSE "done"

\* where control goes when validate_content returns
AfterContent == IF entry = "analyze" THEN "analyze_return" ELSE "done"

\* validate_formatting: results initialised, validate_pdf_format called
BeginFormatting ==
    /\ pc = "validate_formatting"
    /\ results' = InitResults
    /\ calls' = calls \cup {"validate_pdf_format"}
    /\ pc' = "primary"
    /\ UNCHANGED <<doc, policy, entry, tried, valid, page_num, font_sizes,
                   font_families, margins, sections, content, result,
                   caught, runs, prev_sections>>

\* validate_pdf_format: fitz.open, doc.close, return True; or the except
PrimaryParser ==
    /\ pc = "primary"
    /\ tried' = Append(tried, "fitz")
    /\ IF doc.fitz.opens
       THEN /\ valid' = TRUE
            /\ pc' = "gate"
            /\ UNCHANGED caught
       ELSE /\ caught' = caught \cup {"fitz"}
            /\ pc' = "secondary"
            /\ UNCHANGED valid
    /\ UNCHANGED <<doc, policy, entry, page_num, font_sizes, font_families,
                   margins, results, sections, content, result, calls, runs, prev_sections>>

\* validate_pdf_format: pdfplumber.open, return len(pdf.pages) > 0; or the
\* inner except, return False
SecondaryParser ==
    /\ pc = "secondary"
    /\ tried' = Append(tried, "pdfplumber")
    /\ IF doc.plumber.opens
       THEN /\ valid' = (Len(doc.plumber.pages) > 0)
            /\ UNCHANGED caught
       ELSE /\ valid' = FALSE
            /\ caught' = caught \cup {"pdfplumber"}
    /\ pc' = "gate"
    /\ UNCHANGED <<doc, policy, entry, page_num, font_sizes, font_families,
                   margins, results, sections, content, result, calls, runs, prev_sections>>

\* validate_formatting: the file type check and the early return
FileTypeGate ==
    /\ pc = "gate"
    /\ IF GateNext(valid) = "extract_font_info"
       THEN /\ results' = [results EXCEPT !.file_type = PassIf(valid)]
            /\ calls' = calls \cup {"extract_font_info"}
            /\ pc' = "font_open"
       ELSE /\ pc' = AfterFormat
            /\ UNCHANGED <<results, calls>>
    /\ UNCHANGED <<doc, policy, entry, tried, valid, page_num, font_sizes,
                   font_families, margins, sections, content, result,
                   caught, runs, prev_sections>>

\* extract_font_info: the two empty sets and fitz.open
FontOpen ==
    /\ pc = "font_open"
    /\ page_num' = 0
    /\ IF doc.fitz.opens
       THEN /\ font_sizes' = {}
            /\ font_families' = {}
            /\ pc' = "font_page"
            /\ UNCHANGED caught
       ELSE /\ font_sizes' = FontInfoOnError({}, {}).font_sizes
            /\ font_families' = FontInfoOnError({}, {}).font_families
            /\ caught' = caught \cup {"extract_font_info"}
            /\ pc' = "font_check"
    /\ UNCHANGED <<doc, policy, entry, tried, valid, margins, results,
                   sections, content, result, calls, runs,
                   prev_sections>>

\* extract_font_info: one iteration of the page loop
FontPage ==
    /\ pc = "font_page"
    /\ page_num < Len(doc.fitz.pages)
    /\ LET page == doc.fitz.pages[page_num + 1]
           info == IF page.loads
                   THEN AddSpans(font_sizes, font_families, page.spans)
                   ELSE FontInfoOnError(font_sizes, font_families)
       IN /\ font_sizes' = info.font_sizes
          /\ font_families' = info.font_families
          /\ IF page.loads
             THEN /\ page_num' = page_num + 1
                  /\ UNCHANGED <<pc, caught>>
             ELSE /\ caught' = caught \cup {"extract_font_info"}
                  /\ pc' = "font_check"
                  /\ UNCHANGED page_num
    /\ UNCHANGED <<doc, policy, entry, tried, valid, margins, results,
                   sections, content, result, calls, runs,
                   prev_sections>>

\* extract_font_info: the loop is over, doc.close and return
FontReturn ==
    /\ pc = "font_page"
    /\ page_num >= Len(doc.fitz.pages)
    /\ pc' = "font_check"
    /\ UNCHANGED <<doc, policy, entry, tried, valid, page_num, font_sizes,
                   font_families, margins, results, sections, content,
                   result, calls, caught, runs, prev_sections>>

\* validate_formatting: the font size and the font family checks
CheckFont ==
    /\ pc = "font_check"
    /\ results' = [results EXCEPT
          !.font_size = IF FontSizeOK(font_sizes, policy.required_font_size)
                        THEN "pass" ELSE @,
          !.font_family = IF FontFamilyOK(font_families) THEN "pass" ELSE @]
    /\ calls' = calls \cup {"extract_margin_info"}
    /\ pc' = "margin_extract"
    /\ UNCHANGED <<doc, policy, entry, tried, valid, page_num, font_sizes,
                   font_families, margins, sections, content, result,
                   caught, runs, prev_sections>>

\* extract_margin_info
ExtractMargins ==
    /\ pc = "margin_extract"
    /\ margins' = extract_margin_info(doc.plumber)
    /\ caught' = IF MarginInfoRaises(doc.plumber)
                 THEN caught \cup {"extract_margin_info"} ELSE caught
    /\ pc' = "margin_check"
    /\ UNCHANGED <<doc, policy, entry, tried, valid, page_num, font_sizes,
                   font_families, results, sections, content, result, calls, runs, prev_sections>>

\* validate_formatting: the margin check and the return
CheckMargin ==
    /\ pc = "margin_check"
    /\ results' = [results EXCEPT
          !.margin = IF MarginOK(margins, policy.required_margin_inches)
                     THEN "pass" ELSE @]
    /\ pc' = AfterFormat
    /\ UNCHANGED <<doc, policy, entry, tried, valid, page_num, font_sizes,
                   font_families, margins, sections, content, result, calls,
                   caught, runs, prev_sections>>

\* validate_content: detect_sections called, its empty lists
BeginContent ==
    /\ pc = "validate_content"
    /\ calls' = calls \cup {"detect_sections"}
    /\ sections' = EmptySections
    /\ pc' = "sections_open"
    /\ UNCHANGED <<doc, policy, entry, tried, valid, page_num, font_sizes,
                   font_families, margins, results, content, result, caught, runs, prev_sections>>

\* detect_sections: pdfplumber.open
SectionsOpen ==
    /\ pc = "sections_open"
    /\ page_num' = 1
    /\ IF doc.plumber.opens
       THEN /\ pc' = "sections_page"
            /\ UNCHANGED caught
       ELSE /\ caught' = caught \cup {"detect_sections"}
            /\ pc' = "content_eval"
    /\ UNCHANGED <<doc, policy, entry, tried, valid, font_sizes,
                   font_families, margins, results, sections, content,
                   result, calls, runs, prev_sections>>

\* detect_sections: one iteration of the page loop
SectionsPage ==
    /\ pc = "sections_page"
    /\ page_num <= Len(doc.plumber.pages)
    /\ LET page == doc.plumber.pages[page_num]
       IN IF page.text_kind = "raises"
          THEN /\ caught' = caught \cup {"detect_sections"}
               /\ pc' = "content_eval"
               /\ UNCHANGED <<sections, page_num>>
          ELSE /\ sections' = ScanPage(sections, page, page_num)
               /\ page_num' = page_num + 1
               /\ UNCHANGED <<pc, caught>>
    /\ UNCHANGED <<doc, policy, entry, tried, valid, font_sizes,
                   font_families, margins, results, content, result, calls, runs, prev_sections>>

\* detect_sections: the loop is over, return sections
SectionsReturn ==
    /\ pc = "sections_page"
    /\ page_num > Len(doc.plumber.pages)
    /\ pc' = "content_eval"
    /\ UNCHANGED <<doc, policy, entry, tried, valid, page_num, font_sizes,
                   font_families, margins, results, sections, content,
                   result, calls, caught, runs, prev_sections>>

\* validate_content: the loop over section_limits and the return
EvaluateContent ==
    /\ pc = "content_eval"
    /\ content' = ContentResults(sections, policy.section_limits)
    /\ pc' = AfterContent
    /\ UNCHANGED <<doc, policy, entry, tried, valid, page_num, font_sizes,
                   font_families, margins, results, sections, result, calls,
                   caught, runs, prev_sections>>

\* analyze: the returned dict
AnalyzeReturn ==
    /\ pc = "analyze_return"
    /\ result' = <<AnalyzeResult(results, content)>>
    /\ pc' = "done"
    /\ UNCHANGED <<doc, policy, entry, tried, valid, page_num, font_sizes,
                   font_families, margins, results, sections, content, calls,
                   caught, runs, prev_sections>>

\* the same method is called again on the same bytes
CallAgain ==
    /\ pc = "done"
    /\ runs < MaxRuns
    /\ runs' = runs + 1
    /\ prev_sections' = sections
    /\ pc' = StartPc(entry)
    /\ tried' = <<>>
    /\ valid' = FALSE
    /\ page_num' = 0
    /\ font_sizes' = {}
    /\ font_families' = {}
    /\ margins' = ZeroMargins
    /\ results' = InitResults
    /\ sections' = EmptySections
    /\ content' = UnsetContent
    /\ result' = <<>>
    /\ calls' = {}
    /\ caught' = {}
    /\ UNCHANGED <<doc, policy, entry>>

NextFormat ==
    \/ BeginFormatting
    \/ PrimaryParser
    \/ SecondaryParser
    \/ FileTypeGate
    \/ FontOpen
    \/ FontPage
    \/ FontReturn
    \/ CheckFont
    \/ ExtractMargins
    \/ CheckMargin

NextContent ==
    \/ BeginContent
    \/ SectionsOpen
    \/ SectionsPage
    \/ SectionsReturn
    \/ EvaluateContent
    \/ CallAgain

Next ==
    \/ NextFormat
    \/ NextContent
    \/ AnalyzeReturn

SpecFormat == InitFormat /\ [][NextFormat]_vars
SpecContent == InitContent /\ [][NextContent]_vars
Spec == Init /\ [][Next]_vars

(***************************************************************************)
(* Properties.                                                             *)
(***************************************************************************)
Verdicts == {"pass", "fail"}

FormatExtractors == {"extract_font_info", "extract_margin_info"}

\* validate_pdf_format has returned
ValidityKnown == pc \notin {"validate_formatting", "primary", "secondary"}

\* C1: when validate_pdf_format returns False, validate_formatting returns
\* file_type, font_size, font_family and margin all fail, and neither
\* extract_font_info nor extract_margin_info is invoked during the call.
C1_InvalidForcesFail ==
    (ValidityKnown /\ ~valid) =>
        /\ results.file_type = "fail"
        /\ results.font_size = "fail"
        /\ results.font_family = "fail"
        /\ results.margin = "fail"
        /\ calls \cap FormatExtractors = {}

C1_Witness ==
    /\ pc = "done"
    /\ ~valid
    /\ tried = <<"fitz", "pdfplumber">>
    /\ results.file_type = "fail"
    /\ "validate_pdf_format" \in calls

PrimaryFails == ~doc.fitz.opens \/ Len(doc.fitz.pages) = 0
SecondaryFails == ~doc.plumber.opens \/ Len(doc.plumber.pages) = 0

\* C2: validate_pdf_format tries the primary parser first; whenever the
\* primary parser throws or reports zero pages the secondary parser is
\* attempted; the result is invalid when both parsers fail; the outcome is
\* always a boolean.
C2_FallbackOnThrowOrZeroPages ==
    ValidityKnown =>
        /\ Len(tried) >= 1 /\ tried[1] = "fitz"
        /\ PrimaryFails => InSeq("pdfplumber", tried)
        /\ (PrimaryFails /\ SecondaryFails) => ~valid
        /\ valid \in BOOLEAN

\* C3: for a valid document font_size is pass exactly when some size of the
\* extracted rounded-size set is within font_size_tolerance of
\* required_font_size; a lone size required + tolerance passes, a lone size
\* required + tolerance + 1 fails, and an empty size set fails.
C3_FontSizeWithinTolerance ==
    (pc = "done" /\ valid) =>
        LET required == policy.required_font_size
        IN /\ (results.font_size = "pass") <=>
                 (\E size \in font_sizes :
                     /\ size - required <= font_size_tolerance
                     /\ required - size <= font_size_tolerance)
           /\ font_sizes = {required + font_size_tolerance}
                 => results.font_size = "pass"
           /\ font_sizes = {required + font_size_tolerance + 1}
                 => results.font_size = "fail"
           /\ font_sizes = {} => results.font_size = "fail"

C3_Witness ==
    /\ pc = "done"
    /\ valid
    /\ policy.required_font_size = 12
    /\ font_sizes = {13}
    /\ results.font_size = "pass"

\* the four margins of the first page as exact quantities, in tenths of a
\* point
ExactMargins(plumber) ==
    IF /\ plumber.opens
       /\ Len(plumber.pages) > 0
       /\ plumber.pages[1].chars_ok
       /\ plumber.pages[1].chars # {}
    THEN LET page == plumber.pages[1]
         IN [left |-> Min({c.x0 : c \in page.chars}),
             right |-> page.width - Max({c.x1 : c \in page.chars}),
             top |-> Min({c.top : c \in page.chars}),
             bottom |-> page.height - Max({c.bottom : c \in page.chars})]
    ELSE [left |-> 0, right |-> 0, top |-> 0, bottom |-> 0]

\* |m - required| <= tolerance as quantities: m in tenths of a point,
\* required in tenths of an inch (a tenth of an inch is 72 tenths of a point)
Within(m, required) ==
    Abs(m - required * PointsPerInch) <= margin_tolerance_tenths * PointsPerInch

\* C4: for a valid document margin is pass exactly when each of left, right,
\* top and bottom is within the 0.2 inch tolerance of required_margin_inches,
\* a margin exactly at required plus or minus the tolerance included; one
\* side beyond the tolerance fails the check even when the other three
\* equal the required margin.
C4_AllFourMargins ==
    (pc = "done" /\ valid) =>
        LET required == policy.required_margin_inches
            exact == ExactMargins(doc.plumber)
        IN (results.margin = "pass") <=>
              /\ Within(exact.left, required)
              /\ Within(exact.right, required)
              /\ Within(exact.top, required)
              /\ Within(exact.bottom, required)

ZeroCharsOnFirstPage ==
    /\ doc.plumber.opens
    /\ Len(doc.plumber.pages) > 0
    /\ doc.plumber.pages[1].chars_ok
    /\ doc.plumber.pages[1].chars = {}

\* C5 as stated: a valid document whose first page has no characters gets
\* all-zero margins, and under every nonzero required_margin_inches the
\* margin check is fail.
C5_ZeroMarginsFailAnyNonzeroPolicy ==
    (pc = "done" /\ valid /\ ZeroCharsOnFirstPage) =>
        /\ margins = ZeroMargins
        /\ policy.required_margin_inches # 0 => results.margin = "fail"

\* C5 amended: a valid document whose first page has no characters gets
\* all-zero margins; the margin check is fail when required_margin_inches
\* is greater than the 0.2 inch tolerance, and pass when it is not.
C5_ZeroMarginsFailBeyondTolerance ==
    (pc = "done" /\ valid /\ ZeroCharsOnFirstPage) =>
        /\ IsZero(margins.left) /\ IsZero(margins.right)
        /\ IsZero(margins.top) /\ IsZero(margins.bottom)
        /\ policy.required_margin_inches > margin_tolerance_tenths
              => results.margin = "fail"
        /\ policy.required_margin_inches \in 0..margin_tolerance_tenths
              => results.margin = "pass"

C5_Witness ==
    /\ pc = "done"
    /\ valid
    /\ ZeroCharsOnFirstPage
    /\ policy.required_margin_inches = 10
    /\ results.margin = "fail"

StrictlyAscending(s) == \A i \in 1..(Len(s) - 1) : s[i] < s[i + 1]

\* the patterns of category c that match the text of a page
MatchingPatterns(c, page) ==
    {k \in 1..Len(section_keywords[c]) :
        /\ page.text_kind = "text"
        /\ Search(section_keywords[c][k], Lower(page.text))}

\* C6: at every point of the page scan and on return each category's page
\* list is strictly ascending (so duplicate-free), also when several
\* patterns of the category match one page; calling detection again on the
\* same bytes returns the same sections.
C6_SectionsAscendingAndRepeatable ==
    /\ \A c \in Categories :
          /\ StrictlyAscending(sections[c])
          /\ \A i \in 1..Len(sections[c]) :
                sections[c][i] \in 1..Len(doc.plumber.pages)
    /\ (pc = "done" /\ runs > 1) => sections = prev_sections

C6_Witness ==
    /\ pc = "done"
    /\ runs > 1
    /\ Len(doc.plumber.pages) >= 2
    /\ Cardinality(MatchingPatterns("budget", doc.plumber.pages[1])) >= 2
    /\ Cardinality(MatchingPatterns("budget", doc.plumber.pages[2])) >= 2
    /\ sections.budget = <<1, 2>>

\* C7: validate_content reports for every category the length of its page
\* list and pass exactly when the length is at most the category's limit;
\* with budget limit 4, pages 1,2,3,4 pass and pages 1,2,3,4,9 fail with a
\* reported count of 5.
C7_ContentCountAndVerdict ==
    (pc = "done") =>
        /\ \A c \in Categories :
              /\ content.pages[c] = Len(sections[c])
              /\ (content.verdict[c] = "pass") <=>
                     (Len(sections[c]) <= policy.section_limits[c])
              /\ content.verdict[c] \in Verdicts
        /\ (policy.section_limits.budget = 4 /\ sections.budget = <<1, 2, 3, 4>>)
              => content.verdict.budget = "pass"
        /\ (policy.section_limits.budget = 4 /\ sections.budget = <<1, 2, 3, 4, 9>>)
              => (content.verdict.budget = "fail" /\ content.pages.budget = 5)

C7_Witness ==
    /\ pc = "done"
    /\ policy.section_limits.budget = 4
    /\ sections.budget = <<1, 2, 3, 4, 9>>
    /\ content.pages.budget = 5
    /\ content.verdict.budget = "fail"

\* C8: for a valid document font_family is pass exactly when some extracted
\* family contains, compared case-insensitively, one of "Times",
\* "Times-Roman", "TimesNewRoman", "Times New Roman"; an empty family set
\* fails; the font size and margin outcomes play no part.
C8_FontFamilyVariant ==
    (pc = "done" /\ valid) =>
        /\ (results.font_family = "pass") <=>
              (\E font \in font_families :
                  \E variant \in {"times", "times-roman", "timesnewroman",
                                  "times new roman"} :
                      Contains(Lower(font), Chars(variant)))
        /\ font_families = {} => results.font_family = "fail"

C8_Witness ==
    /\ pc = "done"
    /\ valid
    /\ font_families = {"TIMES-ROMAN"}
    /\ results.font_family = "pass"
    /\ results.font_size = "fail"
    /\ results.margin = "fail"

\* the first page whose extract_text raises, or one past the last page
FirstBadTextPage ==
    LET pages == doc.plumber.pages
        bad == {i \in 1..Len(pages) : pages[i].text_kind = "raises"}
    IN IF bad = {} THEN Len(pages) + 1 ELSE Min(bad)

\* the pages among the given ones on which category c has a match, ascending
RECURSIVE PagesMatching(_, _, _)
PagesMatching(c, nums, n) ==
    IF n = 0 THEN <<>>
    ELSE LET before == PagesMatching(c, nums, n - 1)
         IN IF n \in nums /\ MatchingPatterns(c, doc.plumber.pages[n]) # {}
            THEN Append(before, n) ELSE before

ReadableTextPages ==
    {i \in 1..Len(doc.plumber.pages) : doc.plumber.pages[i].text_kind # "raises"}

LoadableFitzPages ==
    {i \in 1..Len(doc.fitz.pages) : doc.fitz.pages[i].loads}

SomeFitzPageFails == \E i \in 1..Len(doc.fitz.pages) : ~doc.fitz.pages[i].loads

\* analyze returned a dict with the four format fields and every category's
\* count and verdict
CompleteResult ==
    /\ Len(result) = 1
    /\ DOMAIN result[1].format = {"file_type", "font_size", "font_family", "margin"}
    /\ \A f \in DOMAIN result[1].format : result[1].format[f] \in Verdicts
    /\ \A c \in Categories :
          /\ result[1].content.pages[c] \in Nat
          /\ result[1].content.verdict[c] \in Verdicts

\* C9 as stated: a failure on one page is caught inside the component,
\* analyze returns a complete result, and the bad page does not prevent the
\* results of the remaining pages: the sizes of every loadable page are
\* extracted and every readable page is scanned for sections.
C9_BadPageKeepsOtherPages ==
    (pc = "done") =>
        /\ CompleteResult
        /\ (valid /\ doc.fitz.opens) =>
              font_sizes = UNION {{round(sp.size) : sp \in doc.fitz.pages[i].spans} :
                                     i \in LoadableFitzPages}
        /\ \A c \in Categories :
              sections[c] = PagesMatching(c, ReadableTextPages, Len(doc.plumber.pages))

\* C9 amended: a failure on one page is caught inside the component and
\* does not abort the analysis: analyze returns a complete result.  The
\* failing component degrades: a page that fails to load makes
\* extract_font_info return two empty sets (font_size and font_family
\* fail), a page whose text extraction fails ends the section scan with the
\* matches of the pages before it.  The other components are unaffected:
\* margins come from the first page's characters and sections from the
\* pdfplumber pages whatever fitz reports.
C9_BadPageDegradesComponent ==
    (pc = "done") =>
        /\ CompleteResult
        /\ (valid /\ SomeFitzPageFails) =>
              /\ "extract_font_info" \in caught
              /\ font_sizes = {} /\ font_families = {}
              /\ result[1].format.font_size = "fail"
              /\ result[1].format.font_family = "fail"
        /\ \A c \in Categories :
              /\ sections[c] = PagesMatching(c, 1..(FirstBadTextPage - 1),
                                             Len(doc.plumber.pages))
              /\ result[1].content.pages[c] = Len(sections[c])
        /\ (valid /\ doc.plumber.opens /\ Len(doc.plumber.pages) > 0
              /\ doc.plumber.pages[1].chars_ok
              /\ doc.plumber.pages[1].chars = GoodChars) =>
              result[1].format.margin = "pass"

C9_Witness ==
    /\ pc = "done"
    /\ valid
    /\ Len(doc.fitz.pages) = 2
    /\ doc.fitz.pages[1].loads /\ doc.fitz.pages[1].spans # {}
    /\ ~doc.fitz.pages[2].loads
    /\ Len(doc.plumber.pages) = 2
    /\ doc.plumber.pages[1].text_kind = "raises"
    /\ MatchingPatterns("budget", doc.plumber.pages[2]) # {}
    /\ caught = {"extract_font_info", "detect_sections"}
    /\ sections.budget = <<>>
    /\ result[1].format.font_size = "fail"
    /\ result[1].format.margin = "pass"

\* C10: analyze evaluates content whether or not the validity gate passed:
\* for bytes neither parser can open, every category reports 0 pages and
\* pass while the four format fields are fail.
C10_ContentEvaluatedWhenInvalid ==
    (pc = "done") =>
        /\ "detect_sections" \in calls
        /\ Len(result) = 1
        /\ (~doc.fitz.opens /\ ~doc.plumber.opens) =>
              /\ \A c \in Categories :
                    /\ result[1].content.pages[c] = 0
                    /\ result[1].content.verdict[c] = "pass"
              /\ result[1].format.file_type = "fail"
              /\ result[1].format.font_size = "fail"
              /\ result[1].format.font_family = "fail"
              /\ result[1].format.margin = "fail"

C10_Witness ==
    /\ pc = "done"
    /\ ~doc.fitz.opens
    /\ ~doc.plumber.opens
    /\ ~valid
    /\ "detect_sections" \in calls
    /\ result[1].content.verdict.budget = "pass"
    /\ result[1].format.file_type = "fail"

====
